---- MODULE Spec2Model ----
(***************************************************************************)
(* OAuth credential lifecycle of the integration gateway:                  *)
(*   src/utils/auth.py   encrypt / decrypt, GoogleOAuthProvider,           *)
(*                       TokenService                                      *)
(*   src/utils/db.py     the oauth_credentials table helpers               *)
(*   src/tools/gmail/tools.py    the gmail tool handlers                   *)
(*   src/jobs/token_refresh.py   the maintenance sweep                     *)
(*   src/main.py         the calendar service's token refresh             *)
(*                                                                         *)
(* A text value (token, ciphertext) is the sequence of its character      *)
(* codes; the output of encrypt is the characters of "iv:tag:ciphertext",  *)
(* each part in hex.  A null column / Python None is the empty sequence    *)
(* (Python tests the tokens for truth, which "" and None fail alike).      *)
(* Time is in seconds.                                                     *)
(***************************************************************************)
EXTENDS Integers, Sequences, FiniteSets, TLC

VARIABLES
    store,      \* the oauth_credentials table: a set of rows
    now,        \* the wall clock, datetime.now(timezone.utc)
    pc,         \* position of each TokenService.refresh_token_if_needed call
    arg,        \* (user_id, provider) each call was made with
    credential, \* the call's local OAuthTokenData
    loaded,     \* the credential as the call read it
    result,     \* what the call returned or raised
    sent,       \* requests each call has sent to the token endpoint
    status,     \* status code of the last answer each call got from it (0: none)
    issued,     \* the (access_token, expires_at) pairs refreshes produced
    saves,      \* number of authorization-flow writes so far
    got,        \* last value returned to a direct caller of
                \* TokenService.get_credentials or delete_oauth_credentials,
                \* with the arguments of the call
    listing,    \* last value returned by get_expiring_oauth_credentials
    lastSaved,  \* arguments of the last save_credentials call of an
                \* authorization flow, and the rows it conflicted with
    outbound,   \* the last provider call a gmail tool handler sent
    job,        \* the maintenance sweep (src/jobs/token_refresh.py): its
                \* position, the credentials it listed, those still to
                \* visit, the one in hand, those whose refresh raised, and
                \* the log it wrote
    cipher,     \* a text put through encrypt and then decrypt: the
                \* plaintext, the output of encrypt, the text decrypt is
                \* given by some other party, the result of decrypt
    calendar    \* the calendar service (src/main.py): its user_tokens
                \* collection and one refresh_token_if_needed(user_id) call

vars == <<store, now, pc, arg, credential, loaded, result, sent, status, issued, saves, got, listing,
          lastSaved, outbound, job, cipher, calendar>>

-----------------------------------------------------------------------------
(* Bounds of the model *)

NumCalls == 2
MaxSaves == 1
MaxNow == 1
MaxIV == 1
MaxLen == 3

(* Program constants *)

\* src/main.py:165 "current_time + 300 >= expiry_date  # 5 minutes buffer"
SafetyMargin == 300
\* src/db.py:39 timedelta(days=1), in seconds
OneDay == 86400

None == <<>>
Some(v) == <<v>>

Calls == 1..NumCalls
Users == {"u1"}
ProviderKeys == {"gcal", "slack"}
Ids == {"i1", "i2"}
IVs == 0..MaxIV
\* Number of values of a byte.
Modulus == 256
\* ord(":")
Colon == 58

\* The clock starts one hour after the epoch of the model and moves in
\* these steps.
StartTime == 3600
Times == {StartTime + 300 * k : k \in 0..MaxNow}

\* Plaintext tokens: "a1", "r1" and the tokens the endpoint mints.
a1 == <<1>>
a2 == <<2>>
r1 == <<3>>
MintedToken(n) == <<4 + n>>

\* expires_at values an authorization flow stores, relative to StartTime.
StoredExpiries ==
    { None, Some(StartTime - 3600), Some(StartTime + 299), Some(StartTime + 301) }

\* Status codes the token endpoint answers with.
StatusCodes == {200, 400, 503}

\* Provider-reported TTLs (expires_in).
ExpiresIn == {60, 3600}

-----------------------------------------------------------------------------------------------------------------------------------------------------
(* Cipher: src/utils/auth.py encrypt / decrypt.                            *)
(*                                                                         *)
(* AES-GCM under the fixed process key is modelled by what the two         *)
(* functions rely on: a keystream that depends on the iv and the position  *)
(* (the ciphertext is the plaintext shifted by it, byte by byte) and a tag *)
(* that authenticates (iv, ciphertext): for one iv, different ciphertexts  *)
(* have different tags.  The 16 random bytes of the iv are one byte here.  *)

\* str.encode("utf-8"), for code points below 2048.
Utf8Char(c) == IF c < 128 THEN <<c>> ELSE <<192 + (c \div 64), 128 + (c % 64)>>

RECURSIVE encode(_)
encode(text) ==
    IF text = <<>> THEN <<>> ELSE Utf8Char(Head(text)) \o encode(Tail(text))

\* bytes.decode("utf-8"): [err, text]; a byte sequence that is not the
\* encoding of a text raises UnicodeDecodeError.
RECURSIVE decode(_)
decode(bytes) ==
    IF bytes = <<>> THEN [err |-> "", text |-> <<>>]
    ELSE IF bytes[1] < 128
    THEN LET rest == decode(Tail(bytes))
         IN  [err |-> rest.err,
              text |-> IF rest.err = "" THEN <<bytes[1]>> \o rest.text ELSE None]
    ELSE IF /\ bytes[1] \in 194..223
            /\ Len(bytes) >= 2
            /\ bytes[2] \in 128..191
    THEN LET rest == decode(SubSeq(bytes, 3, Len(bytes)))
         IN  [err |-> rest.err,
              text |-> IF rest.err = ""
                       THEN <<(bytes[1] - 192) * 64 + (bytes[2] - 128)>> \o rest.text
                       ELSE None]
    ELSE [err |-> "UnicodeDecodeError", text |-> None]

\* As hexlify, but the bytes are written out as they are.
hexlify_raw(bytes) == bytes

\* binascii.hexlify(...).decode(): two lowercase hex digits per byte.
HexDigit(d) == IF d < 10 THEN 48 + d ELSE 87 + d

hexlify(bytes) ==
    [i \in 1..(2 * Len(bytes)) |->
        IF i % 2 = 1 THEN HexDigit(bytes[(i + 1) \div 2] \div 16)
                     ELSE HexDigit(bytes[i \div 2] % 16)]

\* binascii.unhexlify: [err, bytes]; digits of either case are accepted, an
\* odd length or any other character raises binascii.Error.
HexValue(c) ==
    IF c \in 48..57 THEN c - 48
    ELSE IF c \in 97..102 THEN c - 87
    ELSE IF c \in 65..70 THEN c - 55
    ELSE 0 - 1

unhexlify(text) ==
    IF Len(text) % 2 = 1 \/ \E i \in 1..Len(text) : HexValue(text[i]) < 0
    THEN [err |-> "binascii.Error", bytes |-> <<>>]
    ELSE [err |-> "",
          bytes |-> [i \in 1..(Len(text) \div 2) |->
                        16 * HexValue(text[2 * i - 1]) + HexValue(text[2 * i])]]

\* As split, but with maxsplit=2: at most three segments, the last one
\* keeping any further colon.
split_at_most_three(text) ==
    LET colons == { i \in 1..Len(text) : text[i] = Colon }
        nth(k) == CHOOSE i \in colons : Cardinality({ j \in colons : j < i }) = k - 1
    IN  IF Cardinality(colons) < 2
        THEN IF colons = {} THEN <<text>>
             ELSE <<SubSeq(text, 1, nth(1) - 1), SubSeq(text, nth(1) + 1, Len(text))>>
        ELSE <<SubSeq(text, 1, nth(1) - 1),
               SubSeq(text, nth(1) + 1, nth(2) - 1),
               SubSeq(text, nth(2) + 1, Len(text))>>

\* str.split(":"): the segments between the colons.
split(text) ==
    LET colons == { i \in 1..Len(text) : text[i] = Colon }
        cut(k) == IF k = 0 THEN 0
                  ELSE IF k = Cardinality(colons) + 1 THEN Len(text) + 1
                  ELSE CHOOSE i \in colons :
                          Cardinality({ j \in colons : j < i }) = k - 1
    IN  [k \in 1..(Cardinality(colons) + 1) |->
            SubSeq(text, cut(k - 1) + 1, cut(k) - 1)]

Keystream(iv, i) == (5 * iv + 3 * i) % Modulus

Tag(iv, ct) ==
    <<(7 * iv + 1) % Modulus>> \o [i \in 1..Len(ct) |-> (ct[i] + 7 * iv + i) % Modulus]

\* encrypt, with the iv os.urandom produced as a parameter.
encrypt(plaintext, iv) ==
    LET bytes == encode(plaintext)
        ciphertext == [i \in 1..Len(bytes) |-> (bytes[i] + Keystream(iv, i)) % Modulus]
        auth_tag == Tag(iv, ciphertext)
    IN  hexlify(<<iv>>) \o <<Colon>> \o hexlify(auth_tag) \o <<Colon>> \o hexlify(ciphertext)

\* decrypt: [err, text].
decrypt(encrypted_text) ==
    LET parts == split(encrypted_text) IN
    IF Len(parts) # 3
    THEN [err |-> "Invalid encrypted text format", text |-> None]
    ELSE LET iv == unhexlify(parts[1])
             auth_tag == unhexlify(parts[2])
             ciphertext == unhexlify(parts[3])
         IN  IF iv.err # "" \/ auth_tag.err # "" \/ ciphertext.err # ""
             THEN [err |-> "binascii.Error", text |-> None]
             ELSE IF Len(iv.bytes) # 1
             THEN [err |-> "ValueError: iv length", text |-> None]
             ELSE IF auth_tag.bytes # Tag(iv.bytes[1], ciphertext.bytes)
             THEN [err |-> "InvalidTag", text |-> None]
             ELSE decode([i \in 1..Len(ciphertext.bytes) |->
                            (ciphertext.bytes[i] + Modulus - Keystream(iv.bytes[1], i))
                                % Modulus])

\* The tokens of the model, and the values of encrypt and decrypt on them
\* and on their ciphertexts, tabulated once.
PlainTokens == {a1, a2, r1} \cup { MintedToken(n) : n \in 0..NumCalls }

EncryptedTokens == [t \in PlainTokens, iv \in IVs |-> encrypt(t, iv)]

DecryptedTokens ==
    [c \in PlainTokens \cup { EncryptedTokens[t, iv] : t \in PlainTokens, iv \in IVs }
        |-> decrypt(c)]

\* TokenService.encrypt_token / decrypt_token: encrypt(token), decrypt(token).
encrypt_token(token, iv) ==
    IF <<token, iv>> \in DOMAIN EncryptedTokens
    THEN EncryptedTokens[token, iv]
    ELSE encrypt(token, iv)

decrypt_token(token) ==
    IF token \in DOMAIN DecryptedTokens THEN DecryptedTokens[token] ELSE decrypt(token)

-----------------------------------------------------------------------------
(* The oauth_credentials table *)

RowsFor(user_id, provider) ==
    { r \in store : r.user_id = user_id /\ r.provider = provider }

\* As Upsert, but a plain insert: the conflicting row stays.
UpsertAsInsert(table, row) ==
    table \cup {row}

\* upsert(...).execute(): the row replaces the row it conflicts with on the
\* (id, provider) key, or is inserted.
Upsert(table, row) ==
    { r \in table : ~(r.id = row.id /\ r.provider = row.provider) } \cup {row}

\* OAuthTokenData as built from its fields.
OAuthTokenData(id, access_token, user_id, refresh_token, token_type, expires_at, scope) ==
    [id |-> id, access_token |-> access_token, user_id |-> user_id,
     refresh_token |-> refresh_token, token_type |-> token_type,
     expires_at |-> expires_at, scope |-> scope]

\* As SavedRow, but the expiry column is left out of the written row.
SavedRowWithoutExpiry(user_id, provider, token_data, iv_a, iv_r) ==
    [id |-> token_data.id,
     user_id |-> user_id,
     provider |-> provider,
     access_token |-> encrypt_token(token_data.access_token, iv_a),
     refresh_token |-> IF token_data.refresh_token # None
                       THEN encrypt_token(token_data.refresh_token, iv_r)
                       ELSE None,
     token_type |-> token_data.token_type,
     expires_at |-> None,
     scope |-> token_data.scope,
     updated_at |-> Some(now)]

\* TokenService.save_credentials: the row it upserts.
SavedRow(user_id, provider, token_data, iv_a, iv_r) ==
    [id |-> token_data.id,
     user_id |-> user_id,
     provider |-> provider,
     access_token |-> encrypt_token(token_data.access_token, iv_a),
     refresh_token |-> IF token_data.refresh_token # None
                       THEN encrypt_token(token_data.refresh_token, iv_r)
                       ELSE None,
     token_type |-> token_data.token_type,
     expires_at |-> token_data.expires_at,
     scope |-> token_data.scope,
     updated_at |-> Some(now)]

\* As save_credentials, but the upsert is never executed.
save_credentials_not_executed(table, user_id, provider, token_data, iv_a, iv_r) ==
    table

save_credentials(table, user_id, provider, token_data, iv_a, iv_r) ==
    Upsert(table, SavedRow(user_id, provider, token_data, iv_a, iv_r))

\* As get_credentials, but a missing row yields an empty credential.
get_credentials_or_default(user_id, provider) ==
    LET rows == RowsFor(user_id, provider) IN
    IF rows = {}
    THEN [err |-> "",
          cred |-> Some(OAuthTokenData("i1", a1, user_id, None, "Bearer", None, None))]
    ELSE LET data == CHOOSE r \in rows : TRUE
         IN  [err |-> "",
              cred |-> Some(OAuthTokenData(data.id, decrypt_token(data.access_token).text,
                            data.user_id,
                            IF data.refresh_token # None
                            THEN decrypt_token(data.refresh_token).text ELSE None,
                            data.token_type, data.expires_at, data.scope))]

\* As get_credentials, but a credential whose expires_at has passed is not
\* handed out.
get_credentials_if_fresh(user_id, provider) ==
    LET rows == RowsFor(user_id, provider) IN
    IF rows = {} THEN [err |-> "", cred |-> None]
    ELSE LET data == CHOOSE r \in rows : TRUE
         IN  IF data.expires_at # None /\ data.expires_at[1] <= now
             THEN [err |-> "", cred |-> None]
             ELSE [err |-> "",
                   cred |-> Some(OAuthTokenData(data.id, decrypt_token(data.access_token).text,
                                 data.user_id,
                                 IF data.refresh_token # None
                                 THEN decrypt_token(data.refresh_token).text ELSE None,
                                 data.token_type, data.expires_at, data.scope))]

\* TokenService.get_credentials: select ... .single(), then decrypt.
get_credentials(user_id, provider) ==
    LET rows == RowsFor(user_id, provider) IN
    IF rows = {} THEN [err |-> "", cred |-> None]
    ELSE IF Cardinality(rows) > 1 THEN [err |-> "not a single row", cred |-> None]
    ELSE LET data == CHOOSE r \in rows : TRUE
             at == decrypt_token(data.access_token)
             rt == IF data.refresh_token # None
                   THEN decrypt_token(data.refresh_token)
                   ELSE [err |-> "", text |-> None]
         IN  IF at.err # "" THEN [err |-> at.err, cred |-> None]
             ELSE IF rt.err # "" THEN [err |-> rt.err, cred |-> None]
             ELSE [err |-> "",
                   cred |-> Some(OAuthTokenData(data.id, at.text, data.user_id,
                                 rt.text, data.token_type, data.expires_at,
                                 data.scope))]

\* utils.db.upsert_oauth_credentials: the tokens are written as given; the
\* columns it does not name keep their value (updated_at).
RawRow(table, user_id, provider, token_data) ==
    LET old == { r \in table : r.id = token_data.id /\ r.provider = provider } IN
    [id |-> token_data.id,
     user_id |-> user_id,
     provider |-> provider,
     access_token |-> token_data.access_token,
     refresh_token |-> token_data.refresh_token,
     token_type |-> token_data.token_type,
     expires_at |-> token_data.expires_at,
     scope |-> token_data.scope,
     updated_at |-> IF old = {} THEN None ELSE (CHOOSE r \in old : TRUE).updated_at]

upsert_oauth_credentials(table, user_id, provider, token_data) ==
    Upsert(table, RawRow(table, user_id, provider, token_data))

\* As delete_oauth_credentials, but without the filter on the provider.
delete_oauth_credentials_of_user(table, user_id, provider) ==
    { r \in table : r.user_id # user_id }

\* utils.db.delete_oauth_credentials.
delete_oauth_credentials(table, user_id, provider) ==
    { r \in table : ~(r.user_id = user_id /\ r.provider = provider) }

\* utils.db.get_expiring_oauth_credentials: OAuthTokenData(**row) of every
\* row whose expires_at is at most a day ahead (a null expires_at never is).
get_expiring_oauth_credentials ==
    { OAuthTokenData(r.id, r.access_token, r.user_id, r.refresh_token,
                     r.token_type, r.expires_at, r.scope) :
        r \in { x \in store : x.expires_at # None
                              /\ x.expires_at[1] <= now + OneDay } }

\* As get_provider, but an unknown key falls back to the Google provider.
get_provider_or_default(provider) == "GoogleOAuthProvider"

\* PROVIDERS and TokenService.get_provider.
PROVIDERS == {"gcal", "gmail"}
get_provider(provider) ==
    IF provider \in PROVIDERS THEN "GoogleOAuthProvider" ELSE "Unsupported provider"

\* The freshness test of refresh_token_if_needed.
StillValid(cred) == cred.expires_at # None /\ cred.expires_at[1] > now

-----------------------------------------------------------------------------
(* State *)

NoResult == [kind |-> "none", cred |-> None]
Returned(cred) == [kind |-> "returned", cred |-> Some(cred)]
Raised(msg) == [kind |-> msg, cred |-> None]

\* The credentials on file when the calls begin: none, or the one an
\* authorization flow saved for "u1".
SeedStores ==
    {{}} \cup
    { {SavedRow("u1", provider,
          OAuthTokenData("i1", a1, "u1", rt, "Bearer", exp, None), 0, 0)} :
        provider \in ProviderKeys, rt \in {None, r1}, exp \in StoredExpiries }

\* Tables of several users and providers: for "u1" a gcal row, a slack row,
\* both or none, next to the gcal row of another user or without it.
SeveralRows ==
    { gcal \cup slack \cup other :
        gcal \in {{}} \cup { {SavedRow("u1", "gcal",
                                OAuthTokenData("i1", a1, "u1", rt, "Bearer", exp, None), 0, 0)} :
                              rt \in {None, r1}, exp \in StoredExpiries },
        slack \in {{}, {SavedRow("u1", "slack",
                           OAuthTokenData("i2", a2, "u1", r1, "Bearer", None, None), 0, 0)}},
        other \in {{}, {SavedRow("u2", "gcal",
                           OAuthTokenData("i3", a2, "u2", r1, "Bearer",
                                          Some(StartTime + 301), None), 0, 0)}} }

\* The state of everything but the table when the process starts.
InitRest ==
    /\ now = StartTime
    /\ pc = [p \in Calls |-> "idle"]
    /\ arg = [p \in Calls |-> [user_id |-> "u1", provider |-> "gcal"]]
    /\ credential = [p \in Calls |-> None]
    /\ loaded = [p \in Calls |-> None]
    /\ result = [p \in Calls |-> NoResult]
    /\ sent = [p \in Calls |-> 0]
    /\ status = [p \in Calls |-> 0]
    /\ issued = {}
    /\ saves = 0
    /\ got = NoResult
    /\ listing = None
    /\ lastSaved = None
    /\ outbound = None
    /\ job = [pc |-> "idle", credentials |-> {}, pending |-> {},
              current |-> None, failed |-> {}, log |-> <<>>]

\* The calendar service before anything is stored or called.
NoCalendar ==
    [user_tokens |-> {}, pc |-> "idle", user_token |-> None, status |-> 0,
     result |-> [kind |-> "none", token |-> None]]

\* No text is in the cipher's hands.
NoCipher ==
    [pc |-> "idle", plaintext |-> <<>>, encrypted_text |-> <<>>,
     received |-> <<>>, decrypted |-> [err |-> "", text |-> None]]

Init ==
    /\ InitRest
    /\ store \in SeedStores
    /\ cipher = NoCipher
    /\ calendar = NoCalendar

\* A gmail credential is on file when the process starts.
GmailSeedStores ==
    { {SavedRow("u1", "gmail",
          OAuthTokenData("i1", a1, "u1", rt, "Bearer", exp, None), 0, 0)} :
        rt \in {None, r1}, exp \in StoredExpiries }

InitTools ==
    /\ InitRest
    /\ store \in GmailSeedStores
    /\ cipher = NoCipher
    /\ calendar = NoCalendar

\* The texts given to encrypt: every text of at most MaxLen characters
\* drawn from a control character, "0", ":", "a" and a two-byte character.
PlainChars == {1, 48, Colon, 97, 233}

Texts == UNION { [1..k -> PlainChars] : k \in 0..MaxLen }

InitCipher ==
    /\ InitRest
    /\ store = {}
    /\ cipher \in { [NoCipher EXCEPT !.pc = "plain", !.plaintext = text] :
                      text \in Texts }
    /\ calendar = NoCalendar

InitSeveral ==
    /\ InitRest
    /\ store \in SeveralRows
    /\ cipher = NoCipher
    /\ calendar = NoCalendar

\* decrypt is given a text of any shape.
InitDecrypt ==
    /\ InitRest
    /\ store = {}
    /\ cipher \in { [NoCipher EXCEPT !.pc = "given", !.received = text] :
                      text \in Texts }
    /\ calendar = NoCalendar

\* The user_tokens documents save_tokens wrote for "u1" after an
\* authorization ("" for a refresh_token the answer did not carry).
StoredUserTokens ==
    {{}} \cup
    { {[user_id |-> "u1", access_token |-> at, refresh_token |-> rt,
        expiry_date |-> exp]} :
        at \in {a1, a2}, rt \in {<<>>, r1},
        exp \in {StartTime - 3600, StartTime + 299, StartTime + 301, StartTime + 3600} }

InitCalendar ==
    /\ InitRest
    /\ store = {}
    /\ cipher = NoCipher
    /\ calendar \in { [NoCalendar EXCEPT !.user_tokens = docs] :
                        docs \in StoredUserTokens }

\* The variables the table and the refresh calls leave alone.
auxRest == <<outbound, job, cipher, calendar>>
aux == <<lastSaved, auxRest>>

callVars == <<pc, arg, credential, loaded, result, sent, status, issued>>

\* The clock advances.
Tick ==
    /\ \E t \in Times : t > now /\ now' = t
    /\ UNCHANGED <<store, callVars, saves, got, listing, aux>>

\* TokenService.save_credentials called with the tokens an authorization
\* flow obtained.
SaveCredentials ==
    /\ saves < MaxSaves
    /\ \E user_id \in Users, provider \in ProviderKeys, id \in Ids,
          at \in {a1, a2}, rt \in {None, r1}, exp \in StoredExpiries,
          iv_a \in IVs, iv_r \in IVs :
          /\ (rt = None => iv_r = 0)
          /\ store' = save_credentials(store, user_id, provider,
                         OAuthTokenData(id, at, user_id, rt, "Bearer", exp, None),
                         iv_a, iv_r)
          /\ lastSaved' = Some([n |-> saves + 1,
                                user_id |-> user_id, provider |-> provider,
                                token_data |-> OAuthTokenData(id, at, user_id, rt,
                                                              "Bearer", exp, None),
                                replaced |-> { r \in store : r.id = id
                                                            /\ r.provider = provider }])
    /\ saves' = saves + 1
    /\ UNCHANGED <<now, callVars, got, listing, auxRest>>

\* utils.db.upsert_oauth_credentials.
UpsertOauthCredentials ==
    /\ saves < MaxSaves
    /\ \E user_id \in Users, provider \in ProviderKeys, id \in Ids,
          rt \in {None, r1}, exp \in StoredExpiries :
          store' = upsert_oauth_credentials(store, user_id, provider,
                      OAuthTokenData(id, a2, user_id, rt, "Bearer", exp, None))
    /\ saves' = saves + 1
    /\ UNCHANGED <<now, callVars, got, listing, aux>>

\* utils.db.delete_oauth_credentials.
DeleteOauthCredentials ==
    /\ \E user_id \in Users, provider \in ProviderKeys :
          /\ store' = delete_oauth_credentials(store, user_id, provider)
          /\ got' = [kind |-> "deleted", cred |-> None,
                     user_id |-> user_id, provider |-> provider,
                     data |-> store \ store']
    /\ UNCHANGED <<now, callVars, saves, listing, aux>>

\* A caller reads with TokenService.get_credentials.
GetCredentials ==
    /\ \E user_id \in Users, provider \in ProviderKeys :
          LET found == get_credentials(user_id, provider)
              answer == IF found.err # "" THEN Raised(found.err)
                        ELSE IF found.cred = None THEN [kind |-> "None", cred |-> None]
                        ELSE Returned(found.cred[1])
          IN  got' = [kind |-> answer.kind, cred |-> answer.cred,
                      user_id |-> user_id, provider |-> provider]
    /\ UNCHANGED <<store, now, callVars, saves, listing, aux>>

\* A caller lists with utils.db.get_expiring_oauth_credentials.
GetExpiring ==
    /\ listing' = Some(get_expiring_oauth_credentials)
    /\ UNCHANGED <<store, now, callVars, saves, got, aux>>

\* refresh_token_if_needed, lines 189-200: load the credential, test its
\* freshness, resolve the provider; the call ends here or sends the refresh
\* request (refresh_access_token up to httpx.post).
LoadAs(p, user_id, provider) ==
    /\ pc[p] = "idle"
    /\  LET found == get_credentials(user_id, provider) IN
        /\ arg' = [arg EXCEPT ![p] = [user_id |-> user_id, provider |-> provider]]
        /\ loaded' = [loaded EXCEPT ![p] = found.cred]
        /\ IF found.err # ""
           THEN /\ result' = [result EXCEPT ![p] = Raised(found.err)]
                /\ pc' = [pc EXCEPT ![p] = "done"]
                /\ UNCHANGED <<credential, sent>>
           ELSE IF found.cred = None
           THEN /\ result' = [result EXCEPT ![p] = Raised("No credential found")]
                /\ pc' = [pc EXCEPT ![p] = "done"]
                /\ UNCHANGED <<credential, sent>>
           ELSE IF StillValid(found.cred[1])
           THEN /\ result' = [result EXCEPT ![p] = Returned(found.cred[1])]
                /\ pc' = [pc EXCEPT ![p] = "done"]
                /\ credential' = [credential EXCEPT ![p] = found.cred]
                /\ UNCHANGED sent
           ELSE IF get_provider(provider) = "Unsupported provider"
           THEN /\ result' = [result EXCEPT ![p] = Raised("Unsupported provider")]
                /\ pc' = [pc EXCEPT ![p] = "done"]
                /\ credential' = [credential EXCEPT ![p] = found.cred]
                /\ UNCHANGED sent
           ELSE /\ pc' = [pc EXCEPT ![p] = "posted"]
                /\ credential' = [credential EXCEPT ![p] = found.cred]
                /\ sent' = [sent EXCEPT ![p] = @ + 1]
                /\ UNCHANGED result
    /\ UNCHANGED <<store, now, status, issued, saves, got, listing, aux>>

\* A caller calls refresh_token_if_needed.  The calls are numbered in the
\* order they begin.
Load(p) ==
    /\ \A q \in Calls : q < p => pc[q] # "idle"
    /\ \E user_id \in Users, provider \in ProviderKeys : LoadAs(p, user_id, provider)

\* As Refreshed, but the credential is rebuilt from the answer, which
\* carries no refresh_token.
RefreshedFromAnswer(cred, access_token, expires_in) ==
    [cred EXCEPT !.access_token = access_token,
                 !.refresh_token = None,
                 !.expires_at = Some(now + expires_in)]

\* As Refreshed, but the refreshed credential is a new record with an id of
\* its own.
RefreshedAsNewCredential(cred, access_token, expires_in) ==
    [cred EXCEPT !.id = "i2",
                 !.access_token = access_token,
                 !.expires_at = Some(now + expires_in)]

\* refresh_access_token, lines 92-99: the token endpoint answers.
Refreshed(cred, access_token, expires_in) ==
    [cred EXCEPT !.access_token = access_token,
                 !.expires_at = Some(now + expires_in)]

\* As Response, but a rejected refresh falls through to returning the
\* credential on file (what refresh_token_if_needed of src/main.py does).
ResponseFallingThrough(p) ==
    /\ pc[p] = "posted"
    /\ \E code \in StatusCodes, expires_in \in ExpiresIn :
        /\ status' = [status EXCEPT ![p] = code]
        /\ IF code # 200
           THEN /\ result' = [result EXCEPT ![p] = Returned(credential[p][1])]
                /\ pc' = [pc EXCEPT ![p] = "done"]
                /\ UNCHANGED <<credential, issued>>
           ELSE LET new == Refreshed(credential[p][1],
                                     MintedToken(Cardinality(issued)), expires_in)
                IN  /\ credential' = [credential EXCEPT ![p] = Some(new)]
                    /\ issued' = issued \cup
                          {[access_token |-> new.access_token,
                            expires_at |-> new.expires_at]}
                    /\ pc' = [pc EXCEPT ![p] = "saving"]
                    /\ UNCHANGED result
    /\ UNCHANGED <<store, now, arg, loaded, sent, saves, got, listing, aux>>

\* As Response, but a failed request is sent again, up to three times,
\* before the call gives up.
ResponseWithRetry(p) ==
    /\ pc[p] = "posted"
    /\ \E code \in StatusCodes, expires_in \in ExpiresIn :
        /\ status' = [status EXCEPT ![p] = code]
        /\ IF code # 200 /\ sent[p] < 3
           THEN /\ sent' = [sent EXCEPT ![p] = @ + 1]
                /\ UNCHANGED <<result, pc, credential, issued>>
           ELSE IF code # 200
           THEN /\ result' = [result EXCEPT ![p] = Raised("Failed to refresh token")]
                /\ pc' = [pc EXCEPT ![p] = "done"]
                /\ UNCHANGED <<credential, issued, sent>>
           ELSE LET new == Refreshed(credential[p][1],
                                     MintedToken(Cardinality(issued)), expires_in)
                IN  /\ credential' = [credential EXCEPT ![p] = Some(new)]
                    /\ issued' = issued \cup
                          {[access_token |-> new.access_token,
                            expires_at |-> new.expires_at]}
                    /\ pc' = [pc EXCEPT ![p] = "saving"]
                    /\ UNCHANGED <<result, sent>>
    /\ UNCHANGED <<store, now, arg, loaded, saves, got, listing, aux>>

\* refresh_access_token, lines 90-99, from the answer to httpx.post on.
Response(p) ==
    /\ pc[p] = "posted"
    /\ \E code \in StatusCodes, expires_in \in ExpiresIn :
        /\ status' = [status EXCEPT ![p] = code]
        /\ IF code # 200
           THEN /\ result' = [result EXCEPT ![p] = Raised("Failed to refresh token")]
                /\ pc' = [pc EXCEPT ![p] = "done"]
                /\ UNCHANGED <<credential, issued>>
           ELSE LET new == Refreshed(credential[p][1],
                                     MintedToken(Cardinality(issued)), expires_in)
                IN  /\ credential' = [credential EXCEPT ![p] = Some(new)]
                    /\ issued' = issued \cup
                          {[access_token |-> new.access_token,
                            expires_at |-> new.expires_at]}
                    /\ pc' = [pc EXCEPT ![p] = "saving"]
                    /\ UNCHANGED result
    /\ UNCHANGED <<store, now, arg, loaded, sent, saves, got, listing, aux>>

\* refresh_token_if_needed, lines 202-204: persist, then return.
Save(p) ==
    /\ pc[p] = "saving"
    /\ \E iv_a \in IVs, iv_r \in IVs :
          /\ (credential[p][1].refresh_token = None => iv_r = 0)
          /\ store' = save_credentials(store, arg[p].user_id, arg[p].provider,
                                       credential[p][1], iv_a, iv_r)
    /\ result' = [result EXCEPT ![p] = Returned(credential[p][1])]
    /\ pc' = [pc EXCEPT ![p] = "done"]
    /\ UNCHANGED <<now, arg, credential, loaded, sent, status, issued, saves, got, listing, aux>>

Next ==
    \/ Tick
    \/ \E p \in Calls : Load(p)
    \/ \E p \in Calls : Response(p)
    \/ \E p \in Calls : Save(p)

Spec == Init /\ [][Next]_vars

\* src/tools/gmail/tools.py: the entry point each tool handler takes its
\* token from.
GmailTools ==
    { "send_gmail_message", "create_gmail_draft", "reply_gmail_message",
      "list_gmail_messages", "search_gmail_messages", "list_gmail_labels" }

TokenSource(tool) ==
    IF tool \in {"list_gmail_messages", "search_gmail_messages"}
    THEN "refresh_token_if_needed"
    ELSE "get_credentials"

\* The provider call a handler sends with the credential it obtained.
ProviderCall(tool, cred) ==
    Some([tool |-> tool, source |-> TokenSource(tool),
          access_token |-> cred.access_token, expires_at |-> cred.expires_at])

\* send_gmail_message, create_gmail_draft, reply_gmail_message and
\* list_gmail_labels: the client is built from get_credentials and the call
\* is sent (a missing credential ends the handler with an error).
GmailToolUnchecked(tool) ==
    /\ TokenSource(tool) = "get_credentials"
    /\ \E user_id \in Users :
          LET found == get_credentials(user_id, "gmail") IN
          /\ found.err = "" /\ found.cred # None
          /\ outbound' = ProviderCall(tool, found.cred[1])
    /\ UNCHANGED <<store, now, callVars, saves, got, listing, lastSaved, job, cipher, calendar>>

\* list_gmail_messages and search_gmail_messages: the handler calls
\* refresh_token_if_needed ...
GmailToolChecked(p) ==
    \E user_id \in Users : LoadAs(p, user_id, "gmail")

\* ... and, once that call has ended, sends the provider call with the
\* credential it returned, or ends with its error.
GmailToolSend(p, tool) ==
    /\ TokenSource(tool) = "refresh_token_if_needed"
    /\ pc[p] = "done"
    /\ outbound' = IF result[p].kind = "returned"
                   THEN ProviderCall(tool, result[p].cred[1])
                   ELSE outbound
    /\ pc' = [pc EXCEPT ![p] = "idle"]
    /\ credential' = [credential EXCEPT ![p] = None]
    /\ loaded' = [loaded EXCEPT ![p] = None]
    /\ result' = [result EXCEPT ![p] = NoResult]
    /\ sent' = [sent EXCEPT ![p] = 0]
    /\ status' = [status EXCEPT ![p] = 0]
    /\ UNCHANGED <<store, now, arg, issued, saves, got, listing, lastSaved, job, cipher, calendar>>

\* The gmail tool handlers, one at a time.
NextTools ==
    \/ Tick
    \/ \E tool \in GmailTools : GmailToolUnchecked(tool)
    \/ GmailToolChecked(1)
    \/ Response(1)
    \/ Save(1)
    \/ \E tool \in GmailTools : GmailToolSend(1, tool)

SpecTools == InitTools /\ [][NextTools]_vars

\* getattr: whether the object has the attribute.
HasAttr(obj, name) == name \in DOMAIN obj

\* The call slot the sweep's refresh_token_if_needed runs in.
JobCall == 1

\* refresh_all_oauth_credentials, line 25: list the expiring credentials.
RefreshAllOauthCredentials ==
    /\ job.pc = "idle"
    /\ job' = [job EXCEPT !.pc = "loop",
                          !.credentials = get_expiring_oauth_credentials,
                          !.pending = get_expiring_oauth_credentials]
    /\ UNCHANGED <<store, now, callVars, saves, got, listing, lastSaved, outbound, cipher, calendar>>

\* As RefreshOauthCredential, but the handler deletes the credential before
\* it fails.
RefreshOauthCredentialDeleting ==
    /\ job.pc = "loop"
    /\ \E oauth_data \in job.pending :
          /\ job' = [job EXCEPT !.pc = "raised",
                                !.failed = @ \cup {oauth_data}]
          /\ store' = { r \in store : r.id # oauth_data.id }
    /\ UNCHANGED <<now, callVars, saves, got, listing, lastSaved, outbound, cipher, calendar>>

\* refresh_oauth_credential, lines 13-20, for the next listed credential.
\* Line 15 reads oauth_data.provider: without that attribute the try block
\* raises AttributeError, and the handler's log line (18-20) reads it
\* again, so the handler raises before it logs or deletes, and the
\* exception leaves the loop of refresh_all_oauth_credentials.
RefreshOauthCredential ==
    /\ job.pc = "loop"
    /\ \E oauth_data \in job.pending :
          IF HasAttr(oauth_data, "user_id") /\ HasAttr(oauth_data, "provider")
          THEN job' = [job EXCEPT !.pc = "calling",
                                 !.pending = @ \ {oauth_data},
                                 !.current = Some(oauth_data)]
          ELSE job' = [job EXCEPT !.pc = "raised",
                                 !.failed = @ \cup {oauth_data}]
    /\ UNCHANGED <<store, now, callVars, saves, got, listing, lastSaved, outbound, cipher, calendar>>

\* Line 15: the call of refresh_token_if_needed.
RefreshOauthCredentialCall ==
    /\ job.pc = "calling"
    /\ LoadAs(JobCall, job.current[1].user_id, job.current[1].provider)

\* Lines 16-21: the call has ended.  Its result is logged; when it raised,
\* the credential is deleted.
RefreshOauthCredentialReturn ==
    /\ job.pc = "calling"
    /\ pc[JobCall] = "done"
    /\ LET oauth_data == job.current[1]
           entry(level, msg) == [level |-> level, user_id |-> oauth_data.user_id,
                                 provider |-> oauth_data.provider, msg |-> msg]
       IN  IF result[JobCall].kind = "returned"
           THEN /\ job' = [job EXCEPT !.pc = "loop", !.current = None,
                                      !.log = Append(@, entry("info", "Refreshed token"))]
                /\ store' = store
           ELSE /\ job' = [job EXCEPT !.pc = "loop", !.current = None,
                                      !.failed = @ \cup {oauth_data},
                                      !.log = Append(@, entry("error", result[JobCall].kind))]
                /\ store' = delete_oauth_credentials(store, oauth_data.user_id,
                                                     oauth_data.provider)
    /\ pc' = [pc EXCEPT ![JobCall] = "idle"]
    /\ credential' = [credential EXCEPT ![JobCall] = None]
    /\ loaded' = [loaded EXCEPT ![JobCall] = None]
    /\ result' = [result EXCEPT ![JobCall] = NoResult]
    /\ sent' = [sent EXCEPT ![JobCall] = 0]
    /\ status' = [status EXCEPT ![JobCall] = 0]
    /\ UNCHANGED <<now, arg, issued, saves, got, listing, lastSaved, outbound, cipher, calendar>>

\* refresh_all_oauth_credentials, line 26: the loop ends.
RefreshAllDone ==
    /\ job.pc = "loop"
    /\ job.pending = {}
    /\ job' = [job EXCEPT !.pc = "done"]
    /\ UNCHANGED <<store, now, callVars, saves, got, listing, lastSaved, outbound, cipher, calendar>>

\* The sweep, run once over a table that authorization flows write.
\* No OAuthTokenData has a provider attribute (JobNeverCalls), so
\* RefreshOauthCredentialCall and RefreshOauthCredentialReturn are never
\* enabled and the specification leaves them out.
NextSweep ==
    \/ Tick
    \/ SaveCredentials
    \/ RefreshAllOauthCredentials
    \/ RefreshOauthCredential
    \/ RefreshAllDone

SpecSweep == Init /\ [][NextSweep]_vars

\* The sweep, run once over a table of several rows that nothing else
\* writes meanwhile.
NextSweepAlone ==
    \/ Tick
    \/ RefreshAllOauthCredentials
    \/ RefreshOauthCredential
    \/ RefreshAllDone

SpecSweepAlone == InitSeveral /\ [][NextSweepAlone]_vars

\* encrypt(plaintext), with the iv os.urandom draws.
Encrypt ==
    /\ cipher.pc = "plain"
    /\ \E iv \in IVs :
          cipher' = [cipher EXCEPT !.pc = "encrypted",
                                   !.encrypted_text = encrypt(cipher.plaintext, iv)]
    /\ UNCHANGED <<store, now, callVars, saves, got, listing, lastSaved, outbound, job, calendar>>

\* decrypt(encrypted_text).
Decrypt ==
    /\ cipher.pc = "encrypted"
    /\ cipher' = [cipher EXCEPT !.pc = "decrypted",
                                !.decrypted = decrypt(cipher.encrypted_text)]
    /\ UNCHANGED <<store, now, callVars, saves, got, listing, lastSaved, outbound, job, calendar>>

\* The value of the character with one of its bits changed.
FlipBit(c, b) == IF (c \div (2 ^ b)) % 2 = 1 THEN c - 2 ^ b ELSE c + 2 ^ b

\* The positions of the authentication-tag and ciphertext segments in the
\* output of encrypt.
TagAndCiphertextPositions(text) ==
    LET colons == { i \in 1..Len(text) : text[i] = Colon }
        first == CHOOSE i \in colons : \A j \in colons : i <= j
    IN  { i \in 1..Len(text) : i > first /\ i \notin colons }

\* The stored output of encrypt reaches decrypt with one bit of its tag or
\* ciphertext segment changed.
Tamper ==
    /\ cipher.pc = "encrypted"
    /\ \E i \in TagAndCiphertextPositions(cipher.encrypted_text), b \in 0..7 :
          cipher' = [cipher EXCEPT
                        !.pc = "tampered",
                        !.received = [cipher.encrypted_text EXCEPT ![i] = FlipBit(@, b)]]
    /\ UNCHANGED <<store, now, callVars, saves, got, listing, lastSaved, outbound, job, calendar>>

\* decrypt(encrypted_text) of a text that is not the untouched output of
\* encrypt.
DecryptReceived ==
    /\ cipher.pc \in {"given", "tampered"}
    /\ cipher' = [cipher EXCEPT !.pc = IF cipher.pc = "given" THEN "answered"
                                                              ELSE "checked",
                                !.decrypted = decrypt(cipher.received)]
    /\ UNCHANGED <<store, now, callVars, saves, got, listing, lastSaved, outbound, job, calendar>>

\* decrypt on the texts it may be given.
NextDecrypt ==
    \/ DecryptReceived

SpecDecrypt == InitDecrypt /\ [][NextDecrypt]_vars

\* A text is encrypted, the output tampered with and decrypted.
NextTamper ==
    \/ Encrypt
    \/ Tamper
    \/ DecryptReceived

SpecTamper == InitCipher /\ [][NextTamper]_vars

\* A text is encrypted and the output decrypted.
NextCipher ==
    \/ Encrypt
    \/ Decrypt

SpecCipher == InitCipher /\ [][NextCipher]_vars

\* The table under every write and read path, without refresh calls.
NextStore ==
    \/ Tick
    \/ SaveCredentials
    \/ UpsertOauthCredentials
    \/ DeleteOauthCredentials
    \/ GetCredentials
    \/ GetExpiring

SpecStore == Init /\ [][NextStore]_vars

\* Direct reads and deletes on a table of several rows.
NextReadDelete ==
    \/ GetCredentials
    \/ DeleteOauthCredentials

SpecReadDelete == InitSeveral /\ [][NextReadDelete]_vars

\* One call of refresh_token_if_needed while the user disconnects the
\* integration.
NextDisconnect ==
    \/ Tick
    \/ Load(1)
    \/ Response(1)
    \/ Save(1)
    \/ DeleteOauthCredentials

SpecDisconnect == Init /\ [][NextDisconnect]_vars

\* One call of refresh_token_if_needed.
NextCall ==
    \/ Tick
    \/ Load(1)
    \/ Response(1)
    \/ Save(1)

SpecCall == Init /\ [][NextCall]_vars

\* One caller's refresh cycles, in sequence with saves of newly authorized
\* tokens.
NextLifecycle ==
    \/ Tick
    \/ SaveCredentials
    \/ Load(1)
    \/ Response(1)
    \/ Save(1)

SpecLifecycle == Init /\ [][NextLifecycle]_vars

\* Authorization flows saving tokens one after the other.
NextAuthorize ==
    \/ SaveCredentials

SpecAuthorize == Init /\ [][NextAuthorize]_vars

-----------------------------------------------------------------------------
(* The calendar service: src/main.py *)

\* get_user_tokens(user_id): find_one, None when there is no document.
get_user_tokens(user_tokens, user_id) ==
    LET docs == { d \in user_tokens : d.user_id = user_id } IN
    IF docs = {} THEN None ELSE Some(CHOOSE d \in docs : TRUE)

\* save_tokens(user_id, tokens): the document written, and the collection
\* after update_one / insert_one.
SavedUserToken(user_id, tokens) ==
    [user_id |-> user_id,
     access_token |-> tokens.access_token,
     refresh_token |-> tokens.refresh_token,
     expiry_date |-> now + tokens.expires_in]

save_tokens(user_tokens, user_id, tokens) ==
    LET existing == get_user_tokens(user_tokens, user_id) IN
    IF existing # None
    THEN (user_tokens \ {existing[1]}) \cup {SavedUserToken(user_id, tokens)}
    ELSE user_tokens \cup {SavedUserToken(user_id, tokens)}

\* What refresh_token_if_needed(user_id) hands back.
NoToken == [kind |-> "None", token |-> None]
TokenReturned(user_token) == [kind |-> "returned", token |-> Some(user_token)]

\* refresh_token_if_needed, lines 180-189, from the answer of the token
\* endpoint on: a 200 answer is saved and returned; any other answer falls
\* through to "return user_token".
AfterAnswer(code, user_token, new_tokens) ==
    IF code = 200
    THEN [user_tokens |-> save_tokens(calendar.user_tokens, user_token.user_id, new_tokens),
          result |-> TokenReturned(SavedUserToken(user_token.user_id, new_tokens))]
    ELSE [user_tokens |-> calendar.user_tokens, result |-> TokenReturned(user_token)]

\* refresh_token_if_needed(user_id), lines 158-179: read the document, test
\* it against the 5 minutes buffer, and post the refresh request.
CalendarLoad ==
    /\ calendar.pc = "idle"
    /\ \E user_id \in Users :
        LET user_token == get_user_tokens(calendar.user_tokens, user_id) IN
        calendar' =
            IF user_token = None
            THEN [calendar EXCEPT !.pc = "done", !.result = NoToken]
            ELSE IF now + SafetyMargin >= user_token[1].expiry_date
            THEN IF user_token[1].refresh_token = <<>>
                 THEN [calendar EXCEPT !.pc = "done", !.user_token = user_token,
                                       !.result = NoToken]
                 ELSE [calendar EXCEPT !.pc = "posted", !.user_token = user_token]
            ELSE [calendar EXCEPT !.pc = "done", !.user_token = user_token,
                                  !.result = TokenReturned(user_token[1])]
    /\ UNCHANGED <<store, now, callVars, saves, got, listing, lastSaved, outbound, job, cipher>>

\* The token endpoint answers, with or without a new refresh_token.
CalendarResponse ==
    /\ calendar.pc = "posted"
    /\ \E code \in StatusCodes, expires_in \in ExpiresIn, rotated \in BOOLEAN :
        LET user_token == calendar.user_token[1]
            new_tokens == [access_token |-> MintedToken(0),
                           refresh_token |-> IF rotated THEN MintedToken(1)
                                             ELSE user_token.refresh_token,
                           expires_in |-> expires_in]
            after == AfterAnswer(code, user_token, new_tokens)
        IN  calendar' = [calendar EXCEPT !.pc = "done", !.status = code,
                                         !.user_tokens = after.user_tokens,
                                         !.result = after.result]
    /\ UNCHANGED <<store, now, callVars, saves, got, listing, lastSaved, outbound, job, cipher>>

\* One refresh_token_if_needed(user_id) call of the calendar service.
NextCalendar ==
    \/ Tick
    \/ CalendarLoad
    \/ CalendarResponse

SpecCalendar == InitCalendar /\ [][NextCalendar]_vars

-----------------------------------------------------------------------------
(* Properties of TokenService.refresh_token_if_needed, checked under Spec *)

\* The call p has read a credential and tested it.
HasLoaded(p) == pc[p] # "idle" /\ loaded[p] # None
LoadedCred(p) == loaded[p][1]
Finished(p) == pc[p] = "done"
\* The call p returned the credential a refresh produced.
ReturnedRefreshed(p) ==
    Finished(p) /\ result[p].kind = "returned" /\ status[p] = 200

\* C1: a call that finds a credential whose expires_at is in the past and
\* whose refresh_token is absent ends with an explicit "expired,
\* unrefreshable" error and returns no credential (stated here for the
\* providers that have refresh logic and the credentials that had expired
\* before the first call began).
C1_UnrefreshableIsExplicit ==
    \A p \in Calls :
        ( /\ Finished(p) /\ HasLoaded(p)
          /\ arg[p].provider \in PROVIDERS
          /\ LoadedCred(p).expires_at # None
          /\ LoadedCred(p).expires_at[1] < StartTime
          /\ LoadedCred(p).refresh_token = None )
        => /\ result[p].kind = "expired, unrefreshable"
           /\ result[p].cred = None

\* C2: for a credential with a refresh_token (of a provider that can
\* refresh), the call sends a refresh request when expires_at <= now + 300 s
\* and sends none when expires_at > now + 300 s.
C2_RefreshWithinSafetyMargin ==
    [][ \A p \in Calls :
          ( /\ pc[p] = "idle" /\ pc'[p] # "idle"
            /\ loaded'[p] # None
            /\ arg'[p].provider \in PROVIDERS
            /\ loaded'[p][1].refresh_token # None
            /\ loaded'[p][1].expires_at # None )
          => IF loaded'[p][1].expires_at[1] <= now + SafetyMargin
             THEN sent'[p] = 1 /\ pc'[p] = "posted"
             ELSE sent'[p] = 0 /\ result'[p] = Returned(loaded'[p][1]) ]_vars

\* C3: a credential whose expires_at is absent is returned at once: no
\* provider is resolved and no request goes to the token endpoint.
C3_AbsentExpiryIsValid ==
    \A p \in Calls :
        (HasLoaded(p) /\ LoadedCred(p).expires_at = None)
        => /\ Finished(p)
           /\ result[p] = Returned(LoadedCred(p))
           /\ sent[p] = 0

\* C4: when a call returns the credential of a successful refresh, the
\* store already holds the row of its (user_id, provider), and that row
\* decrypts to the returned access_token and carries the returned
\* expires_at.
C4_PersistedBeforeReturn ==
    [][ \A p \in Calls :
          (status[p] = 200 /\ pc[p] # "done" /\ pc'[p] = "done")
          => /\ result'[p].kind = "returned"
             /\ \E r \in store' :
                   /\ r.user_id = arg[p].user_id
                   /\ r.provider = arg[p].provider
                   /\ decrypt_token(r.access_token).err = ""
                   /\ decrypt_token(r.access_token).text = result'[p].cred[1].access_token
                   /\ r.expires_at = result'[p].cred[1].expires_at ]_vars

C4_Witness ==
    \E p \in Calls : ReturnedRefreshed(p) /\ sent[p] = 1

\* C5: when the token endpoint answers the refresh with a status other
\* than 200, the call raises the refresh failure, returns no credential and
\* leaves the store as it was.
C5_FailedRefreshLeavesStore ==
    [][ \A p \in Calls :
          (pc[p] = "posted" /\ pc'[p] # "posted" /\ status'[p] # 200)
          => /\ pc'[p] = "done"
             /\ result'[p].kind = "Failed to refresh token"
             /\ result'[p].cred = None
             /\ store' = store ]_vars

C5_Witness ==
    \E p \in Calls :
        /\ Finished(p) /\ status[p] \in StatusCodes \ {200}
        /\ result[p].kind = "Failed to refresh token"
        /\ RowsFor(arg[p].user_id, arg[p].provider) # {}

\* C6: at most one refresh request per (user_id, provider) is in flight at
\* any time: overlapping calls on one expired credential (refresh_token on
\* file) do not both refresh it.
InFlight(user_id, provider) ==
    { p \in Calls : /\ pc[p] = "posted"
                    /\ arg[p].user_id = user_id
                    /\ arg[p].provider = provider
                    /\ LoadedCred(p).refresh_token # None
                    /\ LoadedCred(p).expires_at # None
                    /\ LoadedCred(p).expires_at[1] < StartTime }

C6_RefreshesSerialized ==
    \A user_id \in Users, provider \in ProviderKeys :
        Cardinality(InFlight(user_id, provider)) <= 1

\* C7: once concurrent calls for one expired credential have all finished,
\* the store holds exactly one row for the key, whose access_token and
\* expires_at are those of one refresh (the one some call returned), and
\* every credential a call returned is one refresh's complete result.
Refreshers(user_id, provider) ==
    { p \in Calls : ReturnedRefreshed(p) /\ arg[p].user_id = user_id
                                          /\ arg[p].provider = provider }

RowMatches(r, cred) ==
    /\ decrypt_token(r.access_token).err = ""
    /\ decrypt_token(r.access_token).text = cred.access_token
    /\ r.expires_at = cred.expires_at

C7_ConcurrentRefreshConsistent ==
    (\A p \in Calls : Finished(p)) =>
        \A user_id \in Users, provider \in ProviderKeys :
            Refreshers(user_id, provider) # {} =>
                /\ Cardinality(RowsFor(user_id, provider)) = 1
                /\ \A r \in RowsFor(user_id, provider) :
                      /\ \E p \in Refreshers(user_id, provider) :
                            RowMatches(r, result[p].cred[1])
                      /\ [access_token |-> decrypt_token(r.access_token).text,
                          expires_at |-> r.expires_at] \in issued
                /\ \A p \in Refreshers(user_id, provider) :
                      [access_token |-> result[p].cred[1].access_token,
                       expires_at |-> result[p].cred[1].expires_at] \in issued

C7_Witness ==
    /\ \A p \in Calls : Finished(p)
    /\ \E p, q \in Calls :
          /\ p # q
          /\ arg[p] = arg[q]
          /\ ReturnedRefreshed(p) /\ ReturnedRefreshed(q)
          /\ LoadedCred(p) = LoadedCred(q)
          /\ LoadedCred(p).expires_at # None
          /\ LoadedCred(p).expires_at[1] < StartTime
          /\ result[p].cred[1].expires_at # result[q].cred[1].expires_at

\* The rows of the key of call p, after the step.
RowsAfter(p) ==
    { r \in store' : r.user_id = arg[p].user_id /\ r.provider = arg[p].provider }

\* The call p persists and returns in this step.
SaveStep(p) == pc[p] = "saving" /\ pc'[p] = "done"

\* C12: a successful refresh (the answer carries no refresh_token) of a
\* credential that has a refresh_token on file returns a credential with
\* that same refresh_token, and the row it writes decrypts to it.
C12_RefreshTokenPreserved ==
    [][ \A p \in Calls :
          (SaveStep(p) /\ LoadedCred(p).refresh_token # None)
          => /\ result'[p].kind = "returned"
             /\ result'[p].cred[1].refresh_token = LoadedCred(p).refresh_token
             /\ RowsAfter(p) # {}
             /\ \A r \in RowsAfter(p) :
                   /\ r.refresh_token # None
                   /\ decrypt_token(r.refresh_token).err = ""
                   /\ decrypt_token(r.refresh_token).text = LoadedCred(p).refresh_token ]_vars

C12_Witness ==
    \E p \in Calls :
        /\ ReturnedRefreshed(p)
        /\ LoadedCred(p).refresh_token = r1
        /\ result[p].cred[1].refresh_token = r1
        /\ result[p].cred[1].access_token # LoadedCred(p).access_token
        /\ \E r \in RowsFor(arg[p].user_id, arg[p].provider) :
              r.refresh_token # None /\ decrypt_token(r.refresh_token).text = r1

\* C13: the step that persists a successful refresh keeps the row count of
\* the table and of the key, and the row of the key keeps its id, user_id,
\* provider, token_type, scope and (decrypted) refresh_token; the
\* access_token, expires_at and updated_at are the ones that may differ.
SameIdentity(before, after) ==
    /\ after.id = before.id
    /\ after.user_id = before.user_id
    /\ after.provider = before.provider
    /\ after.token_type = before.token_type
    /\ after.scope = before.scope
    /\ IF before.refresh_token = None
       THEN after.refresh_token = None
       ELSE /\ after.refresh_token # None
            /\ decrypt_token(after.refresh_token) = decrypt_token(before.refresh_token)

C13_RefreshMutatesInPlace ==
    [][ \A p \in Calls :
          SaveStep(p)
          => /\ Cardinality(store') = Cardinality(store)
             /\ Cardinality(RowsAfter(p)) = 1
             /\ \A before \in RowsFor(arg[p].user_id, arg[p].provider) :
                   \A after \in RowsAfter(p) : SameIdentity(before, after) ]_vars

C13_Witness ==
    \E p \in Calls :
        /\ ReturnedRefreshed(p)
        /\ \E r \in RowsFor(arg[p].user_id, arg[p].provider) :
              /\ r.id = LoadedCred(p).id
              /\ r.scope = LoadedCred(p).scope
              /\ r.token_type = LoadedCred(p).token_type
              /\ decrypt_token(r.access_token).text # LoadedCred(p).access_token
              /\ r.expires_at # LoadedCred(p).expires_at

\* C14: a call for a (user_id, provider) that has no row ends at once with
\* the not-found error; it sends no request and the table stays as it was
\* (no row is created).
C14_MissingCredentialIsNotFound ==
    [][ \A p \in Calls :
          ( /\ pc[p] = "idle" /\ pc'[p] # "idle"
            /\ { r \in store : r.user_id = arg'[p].user_id
                               /\ r.provider = arg'[p].provider } = {} )
          => /\ pc'[p] = "done"
             /\ result'[p] = Raised("No credential found")
             /\ sent'[p] = 0
             /\ store' = store ]_vars

C14_Witness ==
    \E p \in Calls :
        /\ Finished(p)
        /\ result[p] = Raised("No credential found")
        /\ RowsFor(arg[p].user_id, arg[p].provider) = {}
        /\ sent[p] = 0

C16_RefreshlessProviderAlwaysValid ==
    \A p \in Calls :
        (Finished(p) /\ HasLoaded(p) /\ arg[p].provider \notin PROVIDERS)
        => result[p] = Returned(LoadedCred(p))

-----------------------------------------------------------------------------
(* Properties of the table's write and read paths *)

IsCipherOutput(text) == decrypt_token(text).err = ""

\* C8: in every store state the access_token and (when present) the
\* refresh_token of every row are Cipher output, whichever write path
\* (save_credentials, upsert_oauth_credentials) wrote the row.
C8_NoPlaintextAtRest ==
    \A r \in store :
        /\ IsCipherOutput(r.access_token)
        /\ r.refresh_token # None => IsCipherOutput(r.refresh_token)

\* C9: what get_credentials and get_expiring_oauth_credentials hand to the
\* caller carries the plaintext tokens that were saved, never the stored
\* ciphertext.
CarriesPlaintext(cred) ==
    /\ cred.access_token \in PlainTokens
    /\ cred.refresh_token # None => cred.refresh_token \in PlainTokens

C9_EveryReadDecrypts ==
    /\ got.cred # None => CarriesPlaintext(got.cred[1])
    /\ listing # None => \A cred \in listing[1] : CarriesPlaintext(cred)

\* C10: after any sequence of save_credentials calls and refresh cycles the
\* store holds at most one row per (user_id, provider).
C10_OneRowPerUserProvider ==
    \A user_id \in Users, provider \in ProviderKeys :
        Cardinality(RowsFor(user_id, provider)) <= 1

-----------------------------------------------------------------------------
(* Properties of save_credentials, checked under SpecAuthorize *)

SavedKeyRows(table, saved) ==
    { r \in table : r.id = saved.token_data.id /\ r.provider = saved.provider }

RowReflects(r, saved) ==
    /\ r.user_id = saved.user_id
    /\ decrypt_token(r.access_token).err = ""
    /\ decrypt_token(r.access_token).text = saved.token_data.access_token
    /\ IF saved.token_data.refresh_token = None
       THEN r.refresh_token = None
       ELSE /\ r.refresh_token # None
            /\ decrypt_token(r.refresh_token).err = ""
            /\ decrypt_token(r.refresh_token).text = saved.token_data.refresh_token
    /\ r.token_type = saved.token_data.token_type
    /\ r.expires_at = saved.token_data.expires_at
    /\ r.scope = saved.token_data.scope

\* C11: a save_credentials call whose id and provider are those of a row
\* already stored leaves exactly one row with that id and provider, the
\* row count of the table is unchanged, and the row reflects the values of
\* this (second) call.
C11_IdempotentUpsert ==
    [][ (lastSaved' # lastSaved /\ lastSaved'[1].replaced # {})
        => /\ Cardinality(SavedKeyRows(store', lastSaved'[1])) = 1
           /\ Cardinality(store') = Cardinality(store)
           /\ \A r \in SavedKeyRows(store', lastSaved'[1]) :
                 RowReflects(r, lastSaved'[1]) ]_vars

C11_Witness ==
    /\ lastSaved # None
    /\ \E old \in lastSaved[1].replaced :
          decrypt_token(old.access_token).text # lastSaved[1].token_data.access_token
    /\ Cardinality(SavedKeyRows(store, lastSaved[1])) = 1
    /\ \A r \in SavedKeyRows(store, lastSaved[1]) : RowReflects(r, lastSaved[1])

-----------------------------------------------------------------------------
(* Properties of the tool handlers, checked under SpecTools *)

\* C17: the tool handlers take their token from refresh_token_if_needed,
\* so no provider call a handler sends carries a token whose expires_at had
\* passed (here: before the process started, so before any handler began).
C17_ToolsUseCheckedToken ==
    outbound # None
    => ~( /\ outbound[1].expires_at # None
          /\ outbound[1].expires_at[1] < StartTime )

-----------------------------------------------------------------------------
(* Properties of the maintenance sweep, checked under SpecSweep *)

JobNeverCalls == job.pc # "calling" /\ job.current = None

JobFinished == job.pc \in {"done", "raised"}

\* The row a listed credential was built from.
RowsOf(oauth_data) ==
    { r \in store : r.id = oauth_data.id /\ r.user_id = oauth_data.user_id }

\* C18: when the sweep has finished, every listed credential whose refresh
\* failed has no row left in the table, and the log holds the error entry
\* of its failure.
C18_SweepDeletesFailed ==
    JobFinished =>
        \A oauth_data \in job.failed :
            /\ RowsOf(oauth_data) = {}
            /\ \E i \in 1..Len(job.log) :
                  /\ job.log[i].level = "error"
                  /\ job.log[i].user_id = oauth_data.user_id

\* C19: when the sweep has finished, every listed credential that has a
\* refresh_token (and a provider that can refresh) has been refreshed: its
\* row holds an access_token and expires_at that a refresh produced.
C19_SweepRefreshesProactively ==
    JobFinished =>
        \A oauth_data \in job.credentials :
            \A r \in RowsOf(oauth_data) :
                (oauth_data.refresh_token # None /\ r.provider \in PROVIDERS)
                => /\ r.access_token # oauth_data.access_token
                   /\ [access_token |-> decrypt_token(r.access_token).text,
                       expires_at |-> r.expires_at] \in issued

-----------------------------------------------------------------------------
(* Properties of encrypt and decrypt, checked under SpecCipher *)

\* C20: the output of encrypt has exactly three colon-separated segments,
\* each of them hex, and decrypt of that output is the text that was given
\* to encrypt.
C20_CipherRoundTrip ==
    /\ cipher.pc \in {"encrypted", "decrypted"}
       => /\ Len(split(cipher.encrypted_text)) = 3
          /\ \A k \in 1..3 : unhexlify(split(cipher.encrypted_text)[k]).err = ""
    /\ cipher.pc = "decrypted"
       => cipher.decrypted = [err |-> "", text |-> cipher.plaintext]

C20_Witness ==
    /\ cipher.pc = "decrypted"
    /\ \E i, j \in 1..Len(cipher.plaintext) :
          cipher.plaintext[i] = Colon /\ cipher.plaintext[j] = 233
    /\ cipher.decrypted.err = ""
    /\ cipher.decrypted.text = cipher.plaintext

\* The number of colon-separated segments of a text.
Segments(text) == Cardinality({ i \in 1..Len(text) : text[i] = Colon }) + 1

\* C21: for every text that does not have exactly three colon-separated
\* segments, decrypt raises the invalid-format error and returns no
\* plaintext.
C21_MalformedIsRejected ==
    (cipher.pc = "answered" /\ Segments(cipher.received) # 3)
    => cipher.decrypted = [err |-> "Invalid encrypted text format", text |-> None]

C21_Witness ==
    /\ cipher.pc = "answered"
    /\ Segments(cipher.received) = 4
    /\ cipher.decrypted.err = "Invalid encrypted text format"

\* C22: decrypt of an output of encrypt in which one bit of the tag or
\* ciphertext segment was changed fails, and returns no plaintext.
C22_TamperDetected ==
    cipher.pc = "checked"
    => /\ cipher.decrypted.err # ""
       /\ cipher.decrypted.text = None

\* The rows of the table under the key of a direct call.
RowsUnder(table, call) ==
    { r \in table : r.user_id = call.user_id /\ r.provider = call.provider }

\* The credential is the content of the row: its columns, with the tokens
\* being the plaintexts whose encryption the row holds.
IsDecryptedRow(cred, r) ==
    /\ cred.id = r.id
    /\ cred.user_id = r.user_id
    /\ cred.token_type = r.token_type
    /\ cred.expires_at = r.expires_at
    /\ cred.scope = r.scope
    /\ cred.access_token \in PlainTokens
    /\ \E iv \in IVs : encrypt_token(cred.access_token, iv) = r.access_token
    /\ IF r.refresh_token = None THEN cred.refresh_token = None
       ELSE /\ cred.refresh_token \in PlainTokens
            /\ \E iv \in IVs : encrypt_token(cred.refresh_token, iv) = r.refresh_token

\* C23: a get_credentials call returns the stored credential of its key,
\* decrypted, whatever its expires_at (and None when there is no row); it
\* sends no request to a provider and leaves the table unchanged.
C23_GetReturnsStoredAsIs ==
    [][ got'.kind # "deleted"
        => /\ store' = store
           /\ sent' = sent /\ issued' = issued /\ outbound' = outbound
           /\ IF RowsUnder(store, got') = {}
              THEN got'.kind = "None" /\ got'.cred = None
              ELSE /\ got'.kind = "returned"
                   /\ \E r \in RowsUnder(store, got') :
                         IsDecryptedRow(got'.cred[1], r) ]_vars

C23_Witness ==
    /\ got.kind = "returned"
    /\ got.cred[1].expires_at # None
    /\ got.cred[1].expires_at[1] < now
    /\ RowsUnder(store, got) # {}

\* C24: delete_oauth_credentials removes the rows of its (user_id,
\* provider), answers without an error when there is none, leaves every
\* other row as it was, and a second application changes nothing more.
C24_DeleteIsIdempotent ==
    [][ got'.kind = "deleted"
        => /\ RowsUnder(store', got') = {}
           /\ store' = store \ RowsUnder(store, got')
           /\ got'.data = RowsUnder(store, got')
           /\ delete_oauth_credentials(store', got'.user_id, got'.provider) = store' ]_vars

C24_Witness ==
    /\ got.kind = "deleted"
    /\ got.data # {}
    /\ \E r \in store : r.user_id = got.user_id /\ r.provider # got.provider
    /\ \E r \in store : r.user_id # got.user_id

\* C25: one refresh_token_if_needed call sends at most one request to the
\* token endpoint, whether the request succeeds or fails.
C25_NoImplicitRetry ==
    \A p \in Calls : sent[p] <= 1

C25_Witness ==
    \E p \in Calls :
        /\ Finished(p)
        /\ sent[p] = 1
        /\ status[p] # 200
        /\ result[p].kind = "Failed to refresh token"

\* C26: the credential a successful refresh of an expired credential
\* (refresh_token on file) persists is VALID: the row written has an
\* expires_at more than the safety margin after now.
C26_RefreshedIsValid ==
    [][ \A p \in Calls :
          (/\ SaveStep(p)
           /\ LoadedCred(p).refresh_token # None
           /\ LoadedCred(p).expires_at # None)
          => \A r \in RowsAfter(p) :
                /\ r.expires_at # None
                /\ now + SafetyMargin < r.expires_at[1] ]_vars

\* C27: a calendar-service call that found the stored token within the
\* 300 seconds buffer of its expiry, or past it, returns the token a
\* refresh produced or None; after an answer other than 200 it returns
\* None.
C27_FailedRefreshIsExplicit ==
    (calendar.pc = "done" /\ calendar.status # 0)
    => \/ calendar.result = NoToken
       \/ /\ calendar.status = 200
          /\ calendar.result.kind = "returned"
          /\ calendar.result.token[1].access_token = MintedToken(0)

\* C28: once delete_oauth_credentials has completed for a (user_id,
\* provider), and no authorization flow saves a credential afterwards, the
\* table holds no row for it, whatever refresh call was in flight.
C28_DeletedStaysAbsent ==
    got.kind = "deleted" => RowsUnder(store, got) = {}

\* C29: the sweep visits every listed credential and no failure leaves
\* refresh_oauth_credential: the sweep never ends with an exception, and
\* when it has ended no listed credential is left unvisited.
C29_SweepIsolation ==
    /\ job.pc # "raised"
    /\ job.pc = "done" => job.pending = {}

\* The sweep logged a refresh of the credential that the provider rejected.
TerminallyFailed(oauth_data) ==
    \E i \in 1..Len(job.log) :
        /\ job.log[i].level = "error"
        /\ job.log[i].user_id = oauth_data.user_id
        /\ job.log[i].msg = "Failed to refresh token"

====
